---- MODULE Spec2Model ----
(***************************************************************************)
(* Harp registers of the Pico device (picoregisters.py): each register     *)
(* wraps one peripheral object and forwards bus reads and writes to it.    *)
(* The base classes HarpRegister / ReadWriteReg (microharp.register) and   *)
(* the peripheral drivers (picofunction) are modelled from their contract. *)
(***************************************************************************)
EXTENDS Integers, Sequences, FiniteSets, TLC

(* ---------------------------- bounds ---------------------------------- *)
MaxLen == 2              \* longest payload handed to write()
MaxStartWrites == 2      \* cap of the start()/Start-write counters
MaxMinDutyCycle == 1     \* HarpPwm.MinDutyCycle ranges over 0..MaxMinDutyCycle
NPins == 4               \* width of the digital pin arrays

(* ----------------------- program constants ---------------------------- *)
MinFrequency == 2        \* HarpPwm.MinFrequency
U8 == "U8"
U16 == "U16"
HarpTypes == {U8, U16}

Regs == {"di", "set", "clear", "toggle", "adc", "stream",
         "freq", "duty", "start", "stop"}

\* the peripheral object each register class is bound to
Peripheral ==
  [r \in Regs |->
     CASE r = "di" -> "harp_digital_input_array"
       [] r \in {"set", "clear", "toggle"} -> "HarpDigitalOutputArray"
       [] r = "adc" -> "adc"
       [] r = "stream" -> "picoObject"
       [] OTHER -> "harpPWM"]

\* the type tag each constructor hands to super().__init__
RegTyp ==
  [r \in Regs |-> IF r \in {"adc", "freq"} THEN U16 ELSE U8]

\* __len__ of every register
RegLen == [r \in Regs |-> 1]

(* ------------------------- python values ------------------------------ *)
\* a stored or returned python value: an int, a tuple of ints, or absent
Scalar(n) == [kind |-> "int", elems |-> <<n>>]
Tuple(s) == [kind |-> "tuple", elems |-> s]
NoValue == [kind |-> "none", elems |-> <<>>]

\* payloads of length 0..MaxLen whose element 0 ranges over E
PayloadsOf(E) ==
  {<<>>} \cup {[i \in 1..n |-> IF i = 1 THEN e ELSE 0] : e \in E, n \in 1..MaxLen}

FreqElems == {MinFrequency - 1, MinFrequency, MinFrequency + 1}
DutyElems == {-1, 0, 100, 101}
MaskElems == {5, 10}
StreamElems == {0, 1, 200}
StartElems == {0, 1}
AdcSamples == {0, 65535}
PinStates == {0, 5, 10}

(* --------------------------- bit masks -------------------------------- *)
RECURSIVE Pow2(_)
Pow2(n) == IF n = 0 THEN 1 ELSE 2 * Pow2(n - 1)

Bits(m) == {i \in 0..(NPins - 1) : (m \div Pow2(i)) % 2 = 1}

RECURSIVE FromBits(_)
FromBits(S) ==
  IF S = {} THEN 0
  ELSE LET i == CHOOSE x \in S : TRUE IN Pow2(i) + FromBits(S \ {i})

\* every pin of the array on
AllPins == Pow2(NPins) - 1

VARIABLES
  minDutyCycle,   \* HarpPwm.MinDutyCycle of the build
  phase,          \* "bringup" while registers are constructed, then "running"
  built,          \* registers constructed so far
  value,          \* self.value of each register
  pwm,            \* HarpPwm: frequency, dutycyle, enabled
  dout,           \* HarpDigitalOutputArray pin state
  din,            \* HarpDigitalInputArray.state
  adc_event,      \* picoObject.adc_event enabled?
  op,             \* the last operation: register, kind, typ, payload
  err,            \* the exception it raised, "none" when it returned
  ret,            \* what the last read returned
  trace,          \* effects of the last operation, in program order
  startCalls,     \* HarpPwm.start() calls so far
  startWrites     \* PwmStartRegister writes that returned so far

vars == <<minDutyCycle, phase, built, value, pwm, dout, din, adc_event,
          op, err, ret, trace, startCalls, startWrites>>

periph == <<pwm, dout, din, adc_event>>

Ev(name, args) == [fn |-> name, args |-> args]
Op(r, k, typ, payload) == [reg |-> r, kind |-> k, typ |-> typ, payload |-> payload]

(* ------------------------ microharp.register -------------------------- *)
\* HarpRegister.read: the type check
HarpRegister_read(r, typ) ==
  IF typ # RegTyp[r] THEN "TypeMismatch" ELSE "none"

\* HarpRegister.write: the type check, then the length check
HarpRegister_write(r, typ, v) ==
  IF typ # RegTyp[r] THEN "TypeMismatch"
  ELSE IF Len(v) # RegLen[r] THEN "LengthMismatch"
  ELSE "none"

(* -------------------------- picofunction ------------------------------ *)
HarpPwm_start(p) == [p EXCEPT !.enabled = TRUE]
HarpPwm_stop(p) == [p EXCEPT !.enabled = FALSE]
set_state(d, mask) == FromBits(Bits(d) \cup Bits(mask))
clear_state(d, mask) == FromBits(Bits(d) \ Bits(mask))
toggle_state(d, mask) ==
  FromBits((Bits(d) \ Bits(mask)) \cup (Bits(mask) \ Bits(d)))
clear_all(d) == 0

(* --------------------------- outcomes --------------------------------- *)
\* what a method leaves when it raises e after the steps tr: no assignment ran
Raised(e, tr) ==
  /\ err' = e
  /\ trace' = tr
  /\ ret' = NoValue
  /\ UNCHANGED <<value, periph, startCalls, startWrites>>

\* ReadWriteReg.write: the base check, then self.value = value
ReadWriteReg_write(r, typ, v) ==
  IF HarpRegister_write(r, typ, v) # "none"
  THEN Raised(HarpRegister_write(r, typ, v), <<Ev("check", <<>>)>>)
  ELSE /\ value' = [value EXCEPT ![r] = Tuple(v)]
       /\ err' = "none"
       /\ trace' = <<Ev("check", <<>>), Ev("store", v)>>
       /\ ret' = NoValue
       /\ UNCHANGED <<periph, startCalls, startWrites>>

\* ReadWriteReg.read: the base check, then return self.value
ReadWriteReg_read(r, typ) ==
  IF HarpRegister_read(r, typ) # "none"
  THEN Raised(HarpRegister_read(r, typ), <<Ev("check", <<>>)>>)
  ELSE /\ ret' = value[r]
       /\ err' = "none"
       /\ trace' = <<Ev("check", <<>>)>>
       /\ UNCHANGED <<value, periph, startCalls, startWrites>>

(* ------------------- HarpDigitalInputArrayRegister -------------------- *)
\* HarpDigitalInputArrayRegister.read returning the cached value
HarpDigitalInputArrayRegister_read_Cached(typ) ==
  IF HarpRegister_read("di", typ) # "none"
  THEN Raised(HarpRegister_read("di", typ), <<Ev("check", <<>>)>>)
  ELSE /\ ret' = value["di"]
       /\ err' = "none"
       /\ trace' = <<Ev("check", <<>>)>>
       /\ UNCHANGED <<value, periph, startCalls, startWrites>>

\* HarpDigitalInputArrayRegister.read storing the sample it returns
HarpDigitalInputArrayRegister_read_Store(typ) ==
  IF HarpRegister_read("di", typ) # "none"
  THEN Raised(HarpRegister_read("di", typ), <<Ev("check", <<>>)>>)
  ELSE /\ ret' = Tuple(<<din>>)
       /\ value' = [value EXCEPT !["di"] = Tuple(<<din>>)]
       /\ err' = "none"
       /\ trace' = <<Ev("check", <<>>), Ev("state", <<>>)>>
       /\ UNCHANGED <<periph, startCalls, startWrites>>

HarpDigitalInputArrayRegister_read(typ) ==
  IF HarpRegister_read("di", typ) # "none"
  THEN Raised(HarpRegister_read("di", typ), <<Ev("check", <<>>)>>)
  ELSE /\ ret' = Tuple(<<din>>)
       /\ err' = "none"
       /\ trace' = <<Ev("check", <<>>), Ev("state", <<>>)>>
       /\ UNCHANGED <<value, periph, startCalls, startWrites>>

(* ------------------- HarpDigitalOutputArrayRegister ------------------- *)
\* Set_HarpDigitalOutputArrayRegister.write calling the peripheral before
\* super().write
Set_HarpDigitalOutputArrayRegister_write_ActFirst(typ, mask) ==
  IF Len(mask) = 0
  THEN Raised("IndexError", <<>>)
  ELSE IF HarpRegister_write("set", typ, mask) # "none"
  THEN /\ dout' = set_state(dout, mask[1])
       /\ err' = HarpRegister_write("set", typ, mask)
       /\ trace' = <<Ev("set_state", <<mask[1]>>), Ev("check", <<>>)>>
       /\ ret' = NoValue
       /\ UNCHANGED <<value, pwm, din, adc_event, startCalls, startWrites>>
  ELSE /\ value' = [value EXCEPT !["set"] = Tuple(mask)]
       /\ dout' = set_state(dout, mask[1])
       /\ err' = "none"
       /\ trace' = <<Ev("set_state", <<mask[1]>>), Ev("check", <<>>),
                     Ev("store", mask)>>
       /\ ret' = NoValue
       /\ UNCHANGED <<pwm, din, adc_event, startCalls, startWrites>>

Set_HarpDigitalOutputArrayRegister_write(typ, mask) ==
  IF HarpRegister_write("set", typ, mask) # "none"
  THEN Raised(HarpRegister_write("set", typ, mask), <<Ev("check", <<>>)>>)
  ELSE /\ value' = [value EXCEPT !["set"] = Tuple(mask)]
       /\ dout' = set_state(dout, mask[1])
       /\ err' = "none"
       /\ trace' = <<Ev("check", <<>>), Ev("store", mask),
                     Ev("set_state", <<mask[1]>>)>>
       /\ ret' = NoValue
       /\ UNCHANGED <<pwm, din, adc_event, startCalls, startWrites>>

\* Clear_HarpDigitalOutputArrayRegister.write calling clear_state() unmasked
Clear_HarpDigitalOutputArrayRegister_write_All(typ, mask) ==
  IF HarpRegister_write("clear", typ, mask) # "none"
  THEN Raised(HarpRegister_write("clear", typ, mask), <<Ev("check", <<>>)>>)
  ELSE /\ value' = [value EXCEPT !["clear"] = Tuple(mask)]
       /\ dout' = clear_all(dout)
       /\ err' = "none"
       /\ trace' = <<Ev("check", <<>>), Ev("store", mask),
                     Ev("clear_state", <<>>)>>
       /\ ret' = NoValue
       /\ UNCHANGED <<pwm, din, adc_event, startCalls, startWrites>>

Clear_HarpDigitalOutputArrayRegister_write(typ, mask) ==
  IF HarpRegister_write("clear", typ, mask) # "none"
  THEN Raised(HarpRegister_write("clear", typ, mask), <<Ev("check", <<>>)>>)
  ELSE /\ value' = [value EXCEPT !["clear"] = Tuple(mask)]
       /\ dout' = clear_state(dout, mask[1])
       /\ err' = "none"
       /\ trace' = <<Ev("check", <<>>), Ev("store", mask),
                     Ev("clear_state", <<mask[1]>>)>>
       /\ ret' = NoValue
       /\ UNCHANGED <<pwm, din, adc_event, startCalls, startWrites>>

Toggle_HarpDigitalOutputArrayRegister_write(typ, mask) ==
  IF HarpRegister_write("toggle", typ, mask) # "none"
  THEN Raised(HarpRegister_write("toggle", typ, mask), <<Ev("check", <<>>)>>)
  ELSE /\ value' = [value EXCEPT !["toggle"] = Tuple(mask)]
       /\ dout' = toggle_state(dout, mask[1])
       /\ err' = "none"
       /\ trace' = <<Ev("check", <<>>), Ev("store", mask),
                     Ev("toggle_state", <<mask[1]>>)>>
       /\ ret' = NoValue
       /\ UNCHANGED <<pwm, din, adc_event, startCalls, startWrites>>

(* ----------------------------- AdcRegister ---------------------------- *)
\* AdcRegister.read sampling the converter before the type check
AdcRegister_read_SampleFirst(typ, sample) ==
  IF HarpRegister_read("adc", typ) # "none"
  THEN Raised(HarpRegister_read("adc", typ),
              <<Ev("read_u16", <<>>), Ev("check", <<>>)>>)
  ELSE /\ ret' = Tuple(<<sample>>)
       /\ err' = "none"
       /\ trace' = <<Ev("read_u16", <<>>), Ev("check", <<>>)>>
       /\ UNCHANGED <<value, periph, startCalls, startWrites>>

\* sample is what adc.read_u16() yields if it is called
AdcRegister_read(typ, sample) ==
  IF HarpRegister_read("adc", typ) # "none"
  THEN Raised(HarpRegister_read("adc", typ), <<Ev("check", <<>>)>>)
  ELSE /\ ret' = Tuple(<<sample>>)
       /\ err' = "none"
       /\ trace' = <<Ev("check", <<>>), Ev("read_u16", <<>>)>>
       /\ UNCHANGED <<value, periph, startCalls, startWrites>>

(* ---------------------- AnalogStreamStateRegister --------------------- *)
\* AnalogStreamStateRegister.write treating the payload as a boolean (== 1)
AnalogStreamStateRegister_write_Equal(typ, v) ==
  IF HarpRegister_write("stream", typ, v) # "none"
  THEN Raised(HarpRegister_write("stream", typ, v), <<Ev("check", <<>>)>>)
  ELSE /\ value' = [value EXCEPT !["stream"] = Tuple(v)]
       /\ adc_event' = (v[1] = 1)
       /\ err' = "none"
       /\ trace' = <<Ev("check", <<>>), Ev("store", v),
                     Ev(IF v[1] = 1 THEN "enable" ELSE "disable", <<>>)>>
       /\ ret' = NoValue
       /\ UNCHANGED <<pwm, dout, din, startCalls, startWrites>>

AnalogStreamStateRegister_write(typ, v) ==
  IF HarpRegister_write("stream", typ, v) # "none"
  THEN Raised(HarpRegister_write("stream", typ, v), <<Ev("check", <<>>)>>)
  ELSE /\ value' = [value EXCEPT !["stream"] = Tuple(v)]
       /\ adc_event' = (v[1] > 0)
       /\ err' = "none"
       /\ trace' = <<Ev("check", <<>>), Ev("store", v),
                     Ev(IF v[1] > 0 THEN "enable" ELSE "disable", <<>>)>>
       /\ ret' = NoValue
       /\ UNCHANGED <<pwm, dout, din, startCalls, startWrites>>

(* --------------------------- PwmFreqRegister -------------------------- *)
\* PwmFreqRegister.validate refusing the minimum itself (<= for <)
PwmFreqRegister_validate_Strict(v) ==
  IF Len(v) = 0 THEN "IndexError"
  ELSE IF v[1] <= MinFrequency THEN "InvalidValue"
  ELSE "none"

\* value[0] raises IndexError on an empty payload
PwmFreqRegister_validate(v) ==
  IF Len(v) = 0 THEN "IndexError"
  ELSE IF v[1] < MinFrequency THEN "InvalidValue"
  ELSE "none"

\* PwmFreqRegister.write restarting the PWM to apply the new frequency
PwmFreqRegister_write_Restart(typ, v) ==
  IF PwmFreqRegister_validate(v) # "none"
  THEN Raised(PwmFreqRegister_validate(v), <<Ev("validate", <<>>)>>)
  ELSE IF HarpRegister_write("freq", typ, v) # "none"
  THEN Raised(HarpRegister_write("freq", typ, v),
              <<Ev("validate", <<>>), Ev("check", <<>>)>>)
  ELSE /\ value' = [value EXCEPT !["freq"] = Tuple(v)]
       /\ pwm' = HarpPwm_start([pwm EXCEPT !.frequency = v[1]])
       /\ err' = "none"
       /\ trace' = <<Ev("validate", <<>>), Ev("check", <<>>), Ev("store", v),
                     Ev("frequency", <<v[1]>>), Ev("start", <<>>)>>
       /\ ret' = NoValue
       /\ startCalls' = startCalls + 1
       /\ UNCHANGED <<dout, din, adc_event, startWrites>>

\* PwmFreqRegister.write handing the payload to super().write unvalidated
PwmFreqRegister_write_NoValidate(typ, v) ==
  IF HarpRegister_write("freq", typ, v) # "none"
  THEN Raised(HarpRegister_write("freq", typ, v), <<Ev("check", <<>>)>>)
  ELSE /\ value' = [value EXCEPT !["freq"] = Tuple(v)]
       /\ pwm' = [pwm EXCEPT !.frequency = v[1]]
       /\ err' = "none"
       /\ trace' = <<Ev("check", <<>>), Ev("store", v),
                     Ev("frequency", <<v[1]>>)>>
       /\ ret' = NoValue
       /\ UNCHANGED <<dout, din, adc_event, startCalls, startWrites>>

\* super().write(typ, self.validate(value)): the argument is evaluated first
PwmFreqRegister_write(typ, v) ==
  IF PwmFreqRegister_validate(v) # "none"
  THEN Raised(PwmFreqRegister_validate(v), <<Ev("validate", <<>>)>>)
  ELSE IF HarpRegister_write("freq", typ, v) # "none"
  THEN Raised(HarpRegister_write("freq", typ, v),
              <<Ev("validate", <<>>), Ev("check", <<>>)>>)
  ELSE /\ value' = [value EXCEPT !["freq"] = Tuple(v)]
       /\ pwm' = [pwm EXCEPT !.frequency = v[1]]
       /\ err' = "none"
       /\ trace' = <<Ev("validate", <<>>), Ev("check", <<>>), Ev("store", v),
                     Ev("frequency", <<v[1]>>)>>
       /\ ret' = NoValue
       /\ UNCHANGED <<dout, din, adc_event, startCalls, startWrites>>

(* ------------------------- PwmDutycycleRegister ----------------------- *)
\* PwmDutycycleRegister.validate refusing 100 itself (>= for >)
PwmDutycycleRegister_validate_Excl(v) ==
  IF Len(v) = 0 THEN "IndexError"
  ELSE IF (v[1] >= 100) \/ (v[1] < minDutyCycle) THEN "InvalidValue"
  ELSE "none"

PwmDutycycleRegister_validate(v) ==
  IF Len(v) = 0 THEN "IndexError"
  ELSE IF (v[1] > 100) \/ (v[1] < minDutyCycle) THEN "InvalidValue"
  ELSE "none"

\* PwmDutycycleRegister.write validating after super().write has stored
PwmDutycycleRegister_write_Late(typ, v) ==
  IF HarpRegister_write("duty", typ, v) # "none"
  THEN Raised(HarpRegister_write("duty", typ, v), <<Ev("check", <<>>)>>)
  ELSE IF PwmDutycycleRegister_validate(v) # "none"
  THEN /\ value' = [value EXCEPT !["duty"] = Tuple(v)]
       /\ err' = PwmDutycycleRegister_validate(v)
       /\ trace' = <<Ev("check", <<>>), Ev("store", v), Ev("validate", <<>>)>>
       /\ ret' = NoValue
       /\ UNCHANGED <<periph, startCalls, startWrites>>
  ELSE /\ value' = [value EXCEPT !["duty"] = Tuple(v)]
       /\ pwm' = [pwm EXCEPT !.dutycyle = v[1]]
       /\ err' = "none"
       /\ trace' = <<Ev("check", <<>>), Ev("store", v), Ev("validate", <<>>),
                     Ev("dutycyle", <<v[1]>>)>>
       /\ ret' = NoValue
       /\ UNCHANGED <<dout, din, adc_event, startCalls, startWrites>>

\* PwmDutycycleRegister.write assigning harpPWM.dutycycle, an attribute the
\* peripheral does not read
PwmDutycycleRegister_write_Misnamed(typ, v) ==
  IF PwmDutycycleRegister_validate(v) # "none"
  THEN Raised(PwmDutycycleRegister_validate(v), <<Ev("validate", <<>>)>>)
  ELSE IF HarpRegister_write("duty", typ, v) # "none"
  THEN Raised(HarpRegister_write("duty", typ, v),
              <<Ev("validate", <<>>), Ev("check", <<>>)>>)
  ELSE /\ value' = [value EXCEPT !["duty"] = Tuple(v)]
       /\ err' = "none"
       /\ trace' = <<Ev("validate", <<>>), Ev("check", <<>>), Ev("store", v),
                     Ev("dutycycle", <<v[1]>>)>>
       /\ ret' = NoValue
       /\ UNCHANGED <<periph, startCalls, startWrites>>

PwmDutycycleRegister_write(typ, v) ==
  IF PwmDutycycleRegister_validate(v) # "none"
  THEN Raised(PwmDutycycleRegister_validate(v), <<Ev("validate", <<>>)>>)
  ELSE IF HarpRegister_write("duty", typ, v) # "none"
  THEN Raised(HarpRegister_write("duty", typ, v),
              <<Ev("validate", <<>>), Ev("check", <<>>)>>)
  ELSE /\ value' = [value EXCEPT !["duty"] = Tuple(v)]
       /\ pwm' = [pwm EXCEPT !.dutycyle = v[1]]
       /\ err' = "none"
       /\ trace' = <<Ev("validate", <<>>), Ev("check", <<>>), Ev("store", v),
                     Ev("dutycyle", <<v[1]>>)>>
       /\ ret' = NoValue
       /\ UNCHANGED <<dout, din, adc_event, startCalls, startWrites>>

(* --------------------------- PwmStartRegister ------------------------- *)
\* PwmStartRegister.write starting only a PWM that is not enabled yet
PwmStartRegister_write_Skip(typ, v) ==
  IF HarpRegister_write("start", typ, v) # "none"
  THEN Raised(HarpRegister_write("start", typ, v), <<Ev("check", <<>>)>>)
  ELSE IF pwm.enabled = FALSE
  THEN /\ value' = [value EXCEPT !["start"] = Tuple(v)]
       /\ pwm' = HarpPwm_start(pwm)
       /\ err' = "none"
       /\ trace' = <<Ev("check", <<>>), Ev("store", v), Ev("start", <<>>)>>
       /\ ret' = NoValue
       /\ startCalls' = startCalls + 1
       /\ startWrites' = startWrites + 1
       /\ UNCHANGED <<dout, din, adc_event>>
  ELSE /\ value' = [value EXCEPT !["start"] = Tuple(v)]
       /\ err' = "none"
       /\ trace' = <<Ev("check", <<>>), Ev("store", v)>>
       /\ ret' = NoValue
       /\ startWrites' = startWrites + 1
       /\ UNCHANGED <<periph, startCalls>>

\* both branches of the enabled test store, then start
PwmStartRegister_write(typ, v) ==
  IF HarpRegister_write("start", typ, v) # "none"
  THEN Raised(HarpRegister_write("start", typ, v), <<Ev("check", <<>>)>>)
  ELSE /\ value' = [value EXCEPT !["start"] = Tuple(v)]
       /\ pwm' = HarpPwm_start(pwm)
       /\ err' = "none"
       /\ trace' = <<Ev("check", <<>>), Ev("store", v), Ev("start", <<>>)>>
       /\ ret' = NoValue
       /\ startCalls' = startCalls + 1
       /\ startWrites' = startWrites + 1
       /\ UNCHANGED <<dout, din, adc_event>>

(* --------------------------- PwmStopRegister -------------------------- *)
\* PwmStopRegister.write calling stop() whatever enabled is
PwmStopRegister_write_Always(typ, v) ==
  IF HarpRegister_write("stop", typ, v) # "none"
  THEN Raised(HarpRegister_write("stop", typ, v), <<Ev("check", <<>>)>>)
  ELSE /\ value' = [value EXCEPT !["stop"] = Tuple(v)]
       /\ pwm' = HarpPwm_stop(pwm)
       /\ err' = "none"
       /\ trace' = <<Ev("check", <<>>), Ev("store", v), Ev("stop", <<>>)>>
       /\ ret' = NoValue
       /\ UNCHANGED <<dout, din, adc_event, startCalls, startWrites>>

\* PwmStopRegister.write with the enabled test inverted
PwmStopRegister_write_Inverted(typ, v) ==
  IF HarpRegister_write("stop", typ, v) # "none"
  THEN Raised(HarpRegister_write("stop", typ, v), <<Ev("check", <<>>)>>)
  ELSE IF pwm.enabled = FALSE
  THEN /\ value' = [value EXCEPT !["stop"] = Tuple(v)]
       /\ pwm' = HarpPwm_stop(pwm)
       /\ err' = "none"
       /\ trace' = <<Ev("check", <<>>), Ev("store", v), Ev("stop", <<>>)>>
       /\ ret' = NoValue
       /\ UNCHANGED <<dout, din, adc_event, startCalls, startWrites>>
  ELSE /\ value' = [value EXCEPT !["stop"] = Tuple(v)]
       /\ err' = "none"
       /\ trace' = <<Ev("check", <<>>), Ev("store", v)>>
       /\ ret' = NoValue
       /\ UNCHANGED <<periph, startCalls, startWrites>>

PwmStopRegister_write(typ, v) ==
  IF HarpRegister_write("stop", typ, v) # "none"
  THEN Raised(HarpRegister_write("stop", typ, v), <<Ev("check", <<>>)>>)
  ELSE IF pwm.enabled = TRUE
  THEN /\ value' = [value EXCEPT !["stop"] = Tuple(v)]
       /\ pwm' = HarpPwm_stop(pwm)
       /\ err' = "none"
       /\ trace' = <<Ev("check", <<>>), Ev("store", v), Ev("stop", <<>>)>>
       /\ ret' = NoValue
       /\ UNCHANGED <<dout, din, adc_event, startCalls, startWrites>>
  ELSE /\ value' = [value EXCEPT !["stop"] = Tuple(v)]
       /\ err' = "none"
       /\ trace' = <<Ev("check", <<>>), Ev("store", v)>>
       /\ ret' = NoValue
       /\ UNCHANGED <<periph, startCalls, startWrites>>

Init ==
  /\ minDutyCycle \in 0..MaxMinDutyCycle
  /\ phase = "bringup"
  /\ built = {}
  /\ value = [r \in Regs |-> NoValue]
  /\ pwm \in [frequency : {MinFrequency + 1}, dutycyle : {50},
              enabled : BOOLEAN]
  /\ dout = AllPins
  /\ din = 0
  /\ adc_event = FALSE
  /\ op = Op("none", "none", U8, <<>>)
  /\ err = "none"
  /\ ret = NoValue
  /\ trace = <<>>
  /\ startCalls = 0
  /\ startWrites = 0

(* ---------------------------- bring-up -------------------------------- *)
\* r can be constructed now; registers brought up together share a peripheral
Bringup(r) ==
  /\ phase = "bringup"
  /\ r \notin built
  /\ \A q \in built : Peripheral[q] = Peripheral[r]

\* __init__ returned with self.value = v after the effects tr
Constructed(r, v, tr) ==
  /\ built' = built \cup {r}
  /\ value' = [value EXCEPT ![r] = v]
  /\ op' = Op(r, "init", RegTyp[r], <<>>)
  /\ err' = "none"
  /\ trace' = tr
  /\ ret' = NoValue
  /\ UNCHANGED <<minDutyCycle, phase, startCalls, startWrites>>

HarpDigitalInputArrayRegister_init ==
  /\ Bringup("di")
  /\ Constructed("di", Scalar(0), <<>>)
  /\ UNCHANGED periph

\* HarpDigitalOutputArrayRegister.__init__ without the clear_state() call
HarpDigitalOutputArrayRegister_init_NoClear(r) ==
  /\ Bringup(r)
  /\ Constructed(r, Scalar(0), <<>>)
  /\ UNCHANGED periph

\* the three digital output classes share the base constructor
HarpDigitalOutputArrayRegister_init(r) ==
  /\ Bringup(r)
  /\ Constructed(r, Scalar(0), <<Ev("clear_state", <<>>)>>)
  /\ dout' = clear_all(dout)
  /\ UNCHANGED <<pwm, din, adc_event>>

DigitalOutputInit ==
  \E r \in {"set", "clear", "toggle"} : HarpDigitalOutputArrayRegister_init(r)

\* HarpRegister.__init__ only: an AdcRegister has no value attribute
AdcRegister_init ==
  /\ Bringup("adc")
  /\ Constructed("adc", NoValue, <<>>)
  /\ UNCHANGED periph

AnalogStreamStateRegister_init ==
  /\ Bringup("stream")
  /\ Constructed("stream", Scalar(0), <<>>)
  /\ UNCHANGED periph

PwmFreqRegister_init ==
  /\ Bringup("freq")
  /\ Constructed("freq", Scalar(MinFrequency), <<>>)
  /\ UNCHANGED periph

\* super().__init__(U8, MinDutyCycle), then self.write(self.typ, (0,)); when
\* the write raises, so does the constructor, and no register object exists
PwmDutycycleRegister_init ==
  /\ Bringup("duty")
  /\ op' = Op("duty", "init", RegTyp["duty"], <<>>)
  /\ PwmDutycycleRegister_write(RegTyp["duty"], <<0>>)
  /\ built' = IF err' = "none" THEN built \cup {"duty"} ELSE built
  /\ UNCHANGED <<minDutyCycle, phase>>

PwmStartRegister_init ==
  /\ Bringup("start")
  /\ Constructed("start", Scalar(0), <<>>)
  /\ UNCHANGED periph

PwmStopRegister_init ==
  /\ Bringup("stop")
  /\ Constructed("stop", Scalar(0), <<>>)
  /\ UNCHANGED periph

(* --------------------------- bus requests ----------------------------- *)
\* the dispatcher calls a method of the constructed register r
Request(r, k, typ, payload) ==
  /\ r \in built
  /\ op' = Op(r, k, typ, payload)
  /\ phase' = "running"
  /\ UNCHANGED <<minDutyCycle, built>>

WriteDigitalInput ==
  \E typ \in HarpTypes, v \in PayloadsOf(MaskElems) :
    Request("di", "write", typ, v) /\ ReadWriteReg_write("di", typ, v)

ReadDigitalInput ==
  \E typ \in HarpTypes :
    Request("di", "read", typ, <<>>) /\ HarpDigitalInputArrayRegister_read(typ)

WriteSet ==
  \E typ \in HarpTypes, v \in PayloadsOf(MaskElems) :
    Request("set", "write", typ, v)
      /\ Set_HarpDigitalOutputArrayRegister_write(typ, v)

WriteClear ==
  \E typ \in HarpTypes, v \in PayloadsOf(MaskElems) :
    Request("clear", "write", typ, v)
      /\ Clear_HarpDigitalOutputArrayRegister_write(typ, v)

WriteToggle ==
  \E typ \in HarpTypes, v \in PayloadsOf(MaskElems) :
    Request("toggle", "write", typ, v)
      /\ Toggle_HarpDigitalOutputArrayRegister_write(typ, v)

ReadAdc ==
  \E typ \in HarpTypes, sample \in AdcSamples :
    Request("adc", "read", typ, <<>>) /\ AdcRegister_read(typ, sample)

WriteStream ==
  \E typ \in HarpTypes, v \in PayloadsOf(StreamElems) :
    Request("stream", "write", typ, v) /\ AnalogStreamStateRegister_write(typ, v)

WriteFreq ==
  \E typ \in HarpTypes, v \in PayloadsOf(FreqElems) :
    Request("freq", "write", typ, v) /\ PwmFreqRegister_write(typ, v)

WriteDutycycle ==
  \E typ \in HarpTypes, v \in PayloadsOf(DutyElems) :
    Request("duty", "write", typ, v) /\ PwmDutycycleRegister_write(typ, v)

WriteStart ==
  \E typ \in HarpTypes, v \in PayloadsOf(StartElems) :
    /\ startWrites < MaxStartWrites
    /\ Request("start", "write", typ, v)
    /\ PwmStartRegister_write(typ, v)

WriteStop ==
  \E typ \in HarpTypes, v \in PayloadsOf(StartElems) :
    Request("stop", "write", typ, v) /\ PwmStopRegister_write(typ, v)

\* the registers that inherit ReadWriteReg.read unchanged
ReadCached ==
  \E r \in Regs \ {"di", "adc"}, typ \in HarpTypes :
    Request(r, "read", typ, <<>>) /\ ReadWriteReg_read(r, typ)

\* the input pins change under the register
DigitalInputChange ==
  /\ "di" \in built
  /\ din' \in PinStates \ {din}
  /\ op' = Op("di", "env", RegTyp["di"], <<>>)
  /\ err' = "none"
  /\ trace' = <<>>
  /\ ret' = NoValue
  /\ UNCHANGED <<minDutyCycle, phase, built, value, pwm, dout, adc_event,
                 startCalls, startWrites>>

Next ==
  \/ HarpDigitalInputArrayRegister_init
  \/ DigitalOutputInit
  \/ AdcRegister_init
  \/ AnalogStreamStateRegister_init
  \/ PwmFreqRegister_init
  \/ PwmDutycycleRegister_init
  \/ PwmStartRegister_init
  \/ PwmStopRegister_init
  \/ WriteDigitalInput
  \/ ReadDigitalInput
  \/ WriteSet
  \/ WriteClear
  \/ WriteToggle
  \/ ReadAdc
  \/ WriteStream
  \/ WriteFreq
  \/ WriteDutycycle
  \/ WriteStart
  \/ WriteStop
  \/ ReadCached
  \/ DigitalInputChange

Spec == Init /\ [][Next]_vars

TypeOK ==
  /\ built \subseteq Regs
  /\ phase \in {"bringup", "running"}
  /\ pwm.enabled \in BOOLEAN
  /\ \A r \in Regs \ built : value[r] = NoValue

(* ----------------------- reading the last step ------------------------ *)
\* how often the operation called fn
CountEv(tr, name) == Cardinality({i \in DOMAIN tr : tr[i].fn = name})

\* the peripheral calls and assignments of the operation, in order
PeripheralEvents(tr) ==
  SelectSeq(tr, LAMBDA e : e.fn \notin {"check", "validate", "store"})

\* the step is a write(typ, payload) call on register r
WriteStep(r) == op'.reg = r /\ op'.kind = "write"

\* the step is a write of one element of the register's type
TypedWriteStep(r) ==
  WriteStep(r) /\ op'.typ = RegTyp[r] /\ Len(op'.payload) = 1

(* ------------------------------ C1 ------------------------------------ *)
\* C1: a one-element PwmFreqRegister write below MinFrequency raises the
\* invalid-value error and leaves the stored value and the PWM untouched; a
\* typed write of exactly MinFrequency returns, stores it and sets
\* harpPWM.frequency to it.
C1_FreqMinimum ==
  [][WriteStep("freq") /\ Len(op'.payload) = 1 =>
       /\ op'.payload[1] < MinFrequency =>
            /\ err' = "InvalidValue"
            /\ value' = value
            /\ pwm' = pwm
       /\ (op'.payload[1] = MinFrequency /\ op'.typ = RegTyp["freq"]) =>
            /\ err' = "none"
            /\ value'["freq"] = Tuple(<<MinFrequency>>)
            /\ pwm'.frequency = MinFrequency]_vars

\* a below-minimum write was refused after an accepted one
C1_Witness ==
  /\ op.reg = "freq" /\ op.kind = "write"
  /\ op.payload = <<MinFrequency - 1>>
  /\ err = "InvalidValue"
  /\ value["freq"] = Tuple(<<MinFrequency>>)
  /\ pwm.frequency = MinFrequency

(* ------------------------------ C2 ------------------------------------ *)
\* C2: a typed one-element PwmDutycycleRegister write returns exactly when
\* MinDutyCycle <= value <= 100, and then stores the value and sets
\* harpPWM.dutycyle; a one-element write outside the range raises the
\* invalid-value error and leaves the stored value and the PWM untouched.
C2_DutyRange ==
  [][WriteStep("duty") /\ Len(op'.payload) = 1 =>
       LET x == op'.payload[1]
           inRange == minDutyCycle <= x /\ x <= 100
       IN /\ op'.typ = RegTyp["duty"] => (err' = "none" <=> inRange)
          /\ err' = "none" =>
               /\ value'["duty"] = Tuple(<<x>>)
               /\ pwm'.dutycyle = x
          /\ ~inRange =>
               /\ err' = "InvalidValue"
               /\ value' = value
               /\ pwm' = pwm]_vars

\* 101 was refused while the register holds the accepted boundary value 100
C2_Witness ==
  /\ op.reg = "duty" /\ op.kind = "write"
  /\ op.payload = <<101>>
  /\ err = "InvalidValue"
  /\ value["duty"] = Tuple(<<100>>)
  /\ pwm.dutycyle = 100

(* ------------------------------ C3 ------------------------------------ *)
\* C3: constructing a PwmDutycycleRegister never fails, whatever
\* HarpPwm.MinDutyCycle is, and leaves the register reading back 0 and
\* harpPWM.dutycyle at 0.
C3_DutyStartsAtZero ==
  (op.reg = "duty" /\ op.kind = "init") =>
    /\ err = "none"
    /\ "duty" \in built
    /\ value["duty"] = Tuple(<<0>>)
    /\ pwm.dutycyle = 0

(* ------------------------------ C4 ------------------------------------ *)
\* C4: every PwmStartRegister write of one U8 element returns, stores the
\* payload and calls start() exactly once, whether or not the PWM is enabled;
\* the start() calls made so far always equal the Start writes that returned.
C4_StartAlways ==
  [][/\ startCalls' = startWrites'
     /\ TypedWriteStep("start") =>
          /\ err' = "none"
          /\ value'["start"] = Tuple(op'.payload)
          /\ CountEv(trace', "start") = 1
          /\ startCalls' = startCalls + 1
     /\ (WriteStep("start") /\ err' # "none") =>
          /\ CountEv(trace', "start") = 0
          /\ startCalls' = startCalls]_vars

\* a second Start write, on a PWM the first one had enabled, started it again
C4_Witness ==
  /\ op.reg = "start" /\ op.kind = "write" /\ err = "none"
  /\ startWrites = 2
  /\ startCalls = 2
  /\ CountEv(trace, "start") = 1

(* ------------------------------ C5 ------------------------------------ *)
\* C5: every PwmStopRegister write of one U8 element returns and stores the
\* payload; it calls stop() exactly once when the PWM is enabled at the time
\* of the write and not at all when it is not.
C5_StopWhenEnabled ==
  [][TypedWriteStep("stop") =>
       /\ err' = "none"
       /\ value'["stop"] = Tuple(op'.payload)
       /\ pwm.enabled => CountEv(trace', "stop") = 1
       /\ ~pwm.enabled => (CountEv(trace', "stop") = 0 /\ pwm' = pwm)]_vars

\* a Stop write on an enabled PWM stored its payload and called stop() once
C5_Witness ==
  /\ op.reg = "stop" /\ op.kind = "write" /\ err = "none"
  /\ value["stop"] = Tuple(op.payload)
  /\ PeripheralEvents(trace) = <<Ev("stop", <<>>)>>

(* ------------------------------ C6 ------------------------------------ *)
\* C6: after every Start write that returns the PWM is Running, after every
\* Stop write that returns it is Stopped, and no other step changes it: the
\* state is that of the last Start/Stop write.
C6_LastStartStopDecides ==
  [][/\ (WriteStep("start") /\ err' = "none") => pwm'.enabled
     /\ (WriteStep("stop") /\ err' = "none") => ~pwm'.enabled
     /\ ~((WriteStep("start") \/ WriteStep("stop")) /\ err' = "none") =>
          pwm'.enabled = pwm.enabled]_vars

\* a Start write after an earlier Stop write: Running again
C6_Witness ==
  /\ op.reg = "start" /\ op.kind = "write" /\ err = "none"
  /\ value["stop"].kind = "tuple"
  /\ pwm.enabled

(* ------------------------------ C7 ------------------------------------ *)
\* C7: a PwmFreqRegister or PwmDutycycleRegister write, accepted or refused,
\* calls neither start() nor stop() and leaves enabled as it was; the
\* frequency write changes at most frequency, the duty write at most dutycyle.
C7_ConfigOnly ==
  [][(WriteStep("freq") \/ WriteStep("duty")) =>
       /\ pwm'.enabled = pwm.enabled
       /\ CountEv(trace', "start") = 0
       /\ CountEv(trace', "stop") = 0
       /\ startCalls' = startCalls
       /\ WriteStep("freq") => pwm'.dutycyle = pwm.dutycyle
       /\ WriteStep("duty") => pwm'.frequency = pwm.frequency
       /\ UNCHANGED <<dout, din, adc_event>>]_vars

\* an accepted frequency write on a stopped PWM left it stopped
C7_Witness ==
  /\ op.reg = "freq" /\ op.kind = "write" /\ err = "none"
  /\ pwm.frequency = op.payload[1]
  /\ ~pwm.enabled

(* ------------------------------ C8 ------------------------------------ *)
\* the registers whose write override calls the peripheral
ActingRegs == {"set", "clear", "toggle", "stream", "freq", "duty", "start", "stop"}

\* the peripheral call or assignment the write override of r makes
ActionName(r, payload) ==
  CASE r = "set" -> "set_state"
    [] r = "clear" -> "clear_state"
    [] r = "toggle" -> "toggle_state"
    [] r = "stream" -> IF payload[1] > 0 THEN "enable" ELSE "disable"
    [] r = "freq" -> "frequency"
    [] r = "duty" -> "dutycyle"
    [] r = "start" -> "start"
    [] r = "stop" -> "stop"

\* the names of the peripheral calls and assignments of the step
Called == [i \in DOMAIN PeripheralEvents(trace') |-> PeripheralEvents(trace')[i].fn]

\* the write was refused: nothing stored, nothing done to the peripheral
Rejected ==
  /\ err' # "none"
  /\ value' = value
  /\ periph' = periph
  /\ Called = <<>>

\* C8 as stated: after every write to a register with a peripheral action,
\* either the payload is stored and that action was invoked, or the write was
\* refused and neither the stored value nor the peripheral changed.
C8_AllOrNothing ==
  [][(op'.kind = "write" /\ op'.reg \in ActingRegs) =>
       \/ /\ err' = "none"
          /\ value'[op'.reg] = Tuple(op'.payload)
          /\ Called = <<ActionName(op'.reg, op'.payload)>>
       \/ Rejected]_vars

\* C8 as amended: a write either returns with the payload stored and the
\* register's peripheral action invoked once, or is refused with the stored
\* value and the peripheral unchanged; the action of PwmStopRegister is stop()
\* only when the PWM was enabled at the write and none otherwise, and the
\* inherited write of the digital input register has none.
C8_AllOrNothingAmended ==
  [][op'.kind = "write" =>
       \/ /\ err' = "none"
          /\ value'[op'.reg] = Tuple(op'.payload)
          /\ Called =
               IF op'.reg = "di" \/ (op'.reg = "stop" /\ ~pwm.enabled)
               THEN <<>>
               ELSE <<ActionName(op'.reg, op'.payload)>>
       \/ Rejected]_vars

\* a Stop write on a PWM that is not enabled: stored, and no peripheral call
C8_Witness ==
  /\ op.reg = "stop" /\ op.kind = "write" /\ err = "none"
  /\ value["stop"] = Tuple(op.payload)
  /\ PeripheralEvents(trace) = <<>>
  /\ ~pwm.enabled

(* ------------------------------ C9 ------------------------------------ *)
\* C9: a correctly typed write whose payload length differs from the
\* register's length raises the length-mismatch error and no other, and leaves
\* the stored values and the peripherals unchanged, for every register.
C9_LengthMismatch ==
  [][(op'.kind = "write" /\ op'.typ = RegTyp[op'.reg]
        /\ Len(op'.payload) # RegLen[op'.reg]) =>
       /\ err' = "LengthMismatch"
       /\ value' = value
       /\ periph' = periph]_vars

(* ------------------------------ C10 ----------------------------------- *)
\* C10: a read with a type other than the register's raises the type-mismatch
\* error, returns nothing and leaves the stored values and the peripherals
\* unchanged; the digital input and ADC registers do not query their
\* peripheral on such a read.
C10_ReadTypeMismatch ==
  [][(op'.kind = "read" /\ op'.typ # RegTyp[op'.reg]) =>
       /\ err' = "TypeMismatch"
       /\ ret' = NoValue
       /\ value' = value
       /\ periph' = periph
       /\ CountEv(trace', "state") = 0
       /\ CountEv(trace', "read_u16") = 0]_vars

\* a U8 read of the U16 ADC register was refused
C10_Witness ==
  /\ op.reg = "adc" /\ op.kind = "read" /\ op.typ # RegTyp["adc"]
  /\ err = "TypeMismatch"
  /\ ret = NoValue

(* ------------------------------ C11 ----------------------------------- *)
\* C11: every AnalogStreamStateRegister write of one U8 element returns and
\* makes exactly one call on adc_event: enable() when the element is above 0,
\* disable() otherwise; once a write has returned, the event is enabled
\* exactly when the last stored element is above 0.
C11_StreamThreshold ==
  [][/\ TypedWriteStep("stream") =>
          /\ err' = "none"
          /\ PeripheralEvents(trace') =
               <<Ev(IF op'.payload[1] > 0 THEN "enable" ELSE "disable", <<>>)>>
          /\ adc_event' = (op'.payload[1] > 0)
     /\ value'["stream"].kind = "tuple" =>
          adc_event' = (value'["stream"].elems[1] > 0)]_vars

\* 200 was written and the event is enabled
C11_Witness ==
  /\ op.reg = "stream" /\ op.kind = "write" /\ err = "none"
  /\ op.payload = <<200>>
  /\ value["stream"] = Tuple(<<200>>)
  /\ adc_event

(* ------------------------------ C12 ----------------------------------- *)
DigitalOutputRegs == {"set", "clear", "toggle"}

\* C12: every Set / Clear / Toggle write of one U8 element returns and makes
\* exactly one peripheral call, set_state / clear_state / toggle_state with
\* element 0 as the mask, whatever the pins were; the pins outside the mask
\* keep their state and those inside it end on, off or inverted.
C12_OneMaskedCall ==
  [][\A r \in DigitalOutputRegs :
       TypedWriteStep(r) =>
         LET m == Bits(op'.payload[1]) IN
         /\ err' = "none"
         /\ PeripheralEvents(trace') =
              <<Ev(ActionName(r, op'.payload), <<op'.payload[1]>>)>>
         /\ Bits(dout') \ m = Bits(dout) \ m
         /\ r = "set" => m \subseteq Bits(dout')
         /\ r = "clear" => m \cap Bits(dout') = {}
         /\ r = "toggle" => m \cap Bits(dout') = m \ Bits(dout)]_vars

\* mask 0b0101 was cleared from pins that were all on: 0b1010 is left
C12_Witness ==
  /\ op.reg = "clear" /\ op.kind = "write" /\ err = "none"
  /\ op.payload = <<5>>
  /\ dout = 10

(* ------------------------------ C13 ----------------------------------- *)
\* the one-element payload is outside the domain of PWM register r
OutOfDomain(r, payload) ==
  IF r = "freq" THEN payload[1] < MinFrequency
  ELSE (payload[1] > 100) \/ (payload[1] < minDutyCycle)

\* C13: a PwmFreqRegister or PwmDutycycleRegister write with both a
\* mismatched type and an out-of-domain element raises the type-mismatch
\* error, not the invalid-value error.
C13_TypeBeforeDomain ==
  (/\ op.kind = "write"
   /\ op.reg \in {"freq", "duty"}
   /\ op.typ # RegTyp[op.reg]
   /\ Len(op.payload) = 1
   /\ OutOfDomain(op.reg, op.payload)) => err = "TypeMismatch"

(* ------------------------------ C14 ----------------------------------- *)
\* positions of the peripheral calls and assignments in the last operation
PeripheralAt(tr) ==
  {i \in DOMAIN tr : tr[i].fn \notin {"check", "validate", "store"}}

\* C14: in every write, each peripheral call or assignment comes after the
\* store of the payload into the register's value, which already holds the
\* payload then; a write refused by the base type/length check makes no
\* peripheral call.
C14_StoreBeforeAction ==
  op.kind = "write" =>
    /\ \A i \in PeripheralAt(trace) :
         /\ \E j \in 1..(i - 1) : trace[j] = Ev("store", op.payload)
         /\ value[op.reg] = Tuple(op.payload)
    /\ err \in {"TypeMismatch", "LengthMismatch"} => PeripheralAt(trace) = {}

\* a Set write: check, store, then set_state
C14_Witness ==
  /\ op.reg = "set" /\ op.kind = "write" /\ err = "none"
  /\ trace = <<Ev("check", <<>>), Ev("store", op.payload),
               Ev("set_state", <<op.payload[1]>>)>>
  /\ value["set"] = Tuple(op.payload)

(* ------------------------------ C15 ----------------------------------- *)
\* C15: a U8 read of the digital input register returns the one-element
\* tuple holding the peripheral's state at the read, whatever the register's
\* stored value is.
C15_LiveInput ==
  (op.reg = "di" /\ op.kind = "read" /\ op.typ = RegTyp["di"]) =>
    /\ err = "none"
    /\ ret = Tuple(<<din>>)

\* the read returned the pins' state, not the payload written before
C15_Witness ==
  /\ op.reg = "di" /\ op.kind = "read" /\ err = "none"
  /\ value["di"].kind = "tuple"
  /\ din # 0
  /\ ret = Tuple(<<din>>)
  /\ ret # value["di"]

(* ------------------------------ C16 ----------------------------------- *)
LiveRegs == {"di", "adc"}

\* C16 as stated: after a read of a live-sampling register that returned, the
\* register's stored value holds what the read returned.
C16_ReadStoresSample ==
  (op.kind = "read" /\ op.reg \in LiveRegs /\ err = "none") =>
    value[op.reg].elems = ret.elems

\* C16 as amended: a correctly typed read of a live-sampling register returns
\* the one-element tuple of the peripheral's current sample and leaves every
\* stored value as it was: the sample is not stored.
C16_ReadLeavesValue ==
  [][(op'.kind = "read" /\ op'.reg \in LiveRegs
        /\ op'.typ = RegTyp[op'.reg]) =>
       /\ err' = "none"
       /\ value' = value
       /\ ret'.kind = "tuple"
       /\ Len(ret'.elems) = 1
       /\ op'.reg = "di" => ret'.elems[1] = din
       /\ op'.reg = "adc" => ret'.elems[1] \in AdcSamples]_vars

\* the read returned 5 and the register still holds its construction value 0
C16_Witness ==
  /\ op.reg = "di" /\ op.kind = "read" /\ err = "none"
  /\ ret = Tuple(<<5>>)
  /\ value["di"] = Scalar(0)

(* ------------------------------ C17 ----------------------------------- *)
\* C17: constructing a Set, Clear or Toggle register calls clear_state() with
\* no mask exactly once; while only constructors have run, whichever of the
\* three are built, every output pin is off and each built register holds 0.
C17_BringupClearsPins ==
  /\ (op.kind = "init" /\ op.reg \in DigitalOutputRegs) =>
       trace = <<Ev("clear_state", <<>>)>>
  /\ (phase = "bringup" /\ built \cap DigitalOutputRegs # {}) =>
       /\ dout = 0
       /\ \A r \in built \cap DigitalOutputRegs : value[r] = Scalar(0)

\* all three registers are up on one peripheral and no request has been made
C17_Witness ==
  /\ built = DigitalOutputRegs
  /\ phase = "bringup"
  /\ dout = 0

(* ------------------------------ C18 ----------------------------------- *)
\* C18: once the PwmDutycycleRegister is constructed its stored value is the
\* peripheral's dutycyle, and once a frequency write has been accepted the
\* PwmFreqRegister's stored value is the peripheral's frequency, after any
\* accepted and refused writes.
C18_ValueMirrorsPwm ==
  /\ "duty" \in built => value["duty"] = Tuple(<<pwm.dutycyle>>)
  /\ value["freq"].kind = "tuple" => value["freq"] = Tuple(<<pwm.frequency>>)

\* both registers written, then a refused duty write: still in step
C18_Witness ==
  /\ op.reg = "duty" /\ op.kind = "write" /\ err # "none"
  /\ value["duty"] = Tuple(<<100>>)
  /\ pwm.dutycyle = 100
  /\ value["freq"] = Tuple(<<MinFrequency + 1>>)
  /\ pwm.frequency = MinFrequency + 1

(* ------------------------------ C19 ----------------------------------- *)
\* C19: in every state the PwmFreqRegister's stored value is at least
\* MinFrequency and the PwmDutycycleRegister's is within
\* [MinDutyCycle, 100], whatever writes were accepted or refused.
C19_ValuesInDomain ==
  /\ "freq" \in built =>
       /\ Len(value["freq"].elems) = 1
       /\ value["freq"].elems[1] >= MinFrequency
  /\ "duty" \in built =>
       /\ Len(value["duty"].elems) = 1
       /\ value["duty"].elems[1] >= minDutyCycle
       /\ value["duty"].elems[1] <= 100

\* a wrongly typed below-minimum write was refused; the default is kept
C19_Witness ==
  /\ op.reg = "freq" /\ op.kind = "write" /\ op.typ # RegTyp["freq"]
  /\ op.payload = <<MinFrequency - 1>>
  /\ err # "none"
  /\ value["freq"] = Scalar(MinFrequency)
  /\ "duty" \in built

====
